---------------------------- MODULE Spec2Model ----------------------------
(***************************************************************************)
(* Model of crypto_auto_tracker.py: the numeric normalizer                 *)
(* (clean_numeric_text), the scraper's row loop and driver handling        *)
(* (get_top_cryptos), the analysis and scoring functions, persistence      *)
(* (save_to_csv) and the polling loop (main).                              *)
(*                                                                         *)
(* Text is a sequence of one-character strings.  A float is a record       *)
(* [kind, m, e]: kind "num" stands for m * 10^e, "nan" and "inf" for the   *)
(* IEEE values (m is the sign of an infinity), "none" for Python's None.   *)
(***************************************************************************)
EXTENDS Integers, Sequences, FiniteSets, TLC

\* ------------------------------------------------------------------ bounds
\* Longest enumerated input text of the normalizer.
MaxLen == 3

\* ------------------------------------------------- program constants (text)
\* 1_000_000_000_000, 1_000_000_000 and 1_000_000 as powers of ten.
TExp == 12
BExp == 9
MExp == 6

Digits == {"0", "1", "2", "3", "4", "5", "6", "7", "8", "9"}

DigitVal(c) ==
  CASE c = "0" -> 0 [] c = "1" -> 1 [] c = "2" -> 2 [] c = "3" -> 3
    [] c = "4" -> 4 [] c = "5" -> 5 [] c = "6" -> 6 [] c = "7" -> 7
    [] c = "8" -> 8 [] OTHER -> 9

None == [kind |-> "none", m |-> 0, e |-> 0]
NaN == [kind |-> "nan", m |-> 0, e |-> 0]
Inf(sign) == [kind |-> "inf", m |-> sign, e |-> 0]
Num(m, e) == [kind |-> "num", m |-> m, e |-> e]

\* ------------------------------------------------------- str operations
\* str.replace(c, ''): every occurrence of c is removed.
Replace(s, c) == SelectSeq(s, LAMBDA x : x # c)

\* c in s
Contains(s, c) == \E i \in 1..Len(s) : s[i] = c

RECURSIVE LStrip(_)
LStrip(s) == IF s # <<>> /\ Head(s) = " " THEN LStrip(Tail(s)) ELSE s

RECURSIVE RStrip(_)
RStrip(s) ==
  IF s # <<>> /\ s[Len(s)] = " " THEN RStrip(SubSeq(s, 1, Len(s) - 1)) ELSE s

\* str.strip()
Strip(s) == RStrip(LStrip(s))

AllDigits(s) == \A i \in 1..Len(s) : s[i] \in Digits

RECURSIVE IntOf(_)
IntOf(s) ==
  IF s = <<>> THEN 0 ELSE 10 * IntOf(SubSeq(s, 1, Len(s) - 1)) + DigitVal(s[Len(s)])

\* Position of the first "." of s, 0 when there is none.
DotPos(s) ==
  IF Contains(s, ".") THEN CHOOSE i \in 1..Len(s) : s[i] = "." /\ \A j \in 1..(i - 1) : s[j] # "."
  ELSE 0

\* An unsigned decimal literal: digits, optionally one "." with digits on at
\* least one side of it.
IsDecimal(s) ==
  LET d == DotPos(s) IN
  IF d = 0 THEN s # <<>> /\ AllDigits(s)
  ELSE /\ AllDigits(SubSeq(s, 1, d - 1))
       /\ AllDigits(SubSeq(s, d + 1, Len(s)))
       /\ Len(s) > 1

DecimalOf(s, sign) ==
  LET d == DotPos(s) IN
  IF d = 0 THEN Num(sign * IntOf(s), 0)
  ELSE Num(sign * IntOf(SubSeq(s, 1, d - 1) \o SubSeq(s, d + 1, Len(s))), 0 - (Len(s) - d))

\* The literal without its sign, and the sign.
Unsigned(s) == IF s # <<>> /\ Head(s) = "-" THEN Tail(s) ELSE s
SignOf(s) == IF s # <<>> /\ Head(s) = "-" THEN 0 - 1 ELSE 1

IsSpecial(s) == s \in {<<"n", "a", "n">>, <<"i", "n", "f">>}

\* float(text) succeeds: surrounding whitespace is ignored, then an optional
\* sign and a decimal literal, "nan" or "inf".  (Exponents, "+", "_" and
\* upper-case spellings are outside the enumerated alphabet.)
ValidFloat(s) ==
  LET u == Unsigned(Strip(s)) IN IsDecimal(u) \/ IsSpecial(u)

\* float(text) for a text with ValidFloat(text).
Float(s) ==
  LET t == Strip(s)
      u == Unsigned(t)
  IN  IF u = <<"n", "a", "n">> THEN NaN
      ELSE IF u = <<"i", "n", "f">> THEN Inf(SignOf(t))
      ELSE DecimalOf(u, SignOf(t))

\* float * multiplier, the multiplier being 10^k.
Times(v, k) == IF v.kind = "num" THEN Num(v.m, v.e + k) ELSE v

\* ------------------------------------------------- clean_numeric_text
Raised == [kind |-> "raise", m |-> 0, e |-> 0]

\* An argument of clean_numeric_text: text, None, or a number.
Arg(kind, s) == [kind |-> kind, s |-> s]

\* isinstance(text, str)
IsStr(x) == x.kind = "str"

\* text.replace('$', '').replace(',', '').replace('%', '').strip()
CleanText(s) == Strip(Replace(Replace(Replace(s, "$"), ","), "%"))

\* Mutant: 'B' is tested before 'T'.
SuffixStep_BFirst(s) ==
  IF Contains(s, "B") THEN [mult |-> BExp, text |-> Replace(s, "B")]
  ELSE IF Contains(s, "T") THEN [mult |-> TExp, text |-> Replace(s, "T")]
  ELSE IF Contains(s, "M") THEN [mult |-> MExp, text |-> Replace(s, "M")]
  ELSE [mult |-> 0, text |-> s]

\* The if / elif / elif chain on 'T', 'B', 'M': the multiplier (as a power of
\* ten, 0 for multiplier 1) and the text with the letter replaced by ''.
SuffixStep(s) ==
  IF Contains(s, "T") THEN [mult |-> TExp, text |-> Replace(s, "T")]
  ELSE IF Contains(s, "B") THEN [mult |-> BExp, text |-> Replace(s, "B")]
  ELSE IF Contains(s, "M") THEN [mult |-> MExp, text |-> Replace(s, "M")]
  ELSE [mult |-> 0, text |-> s]

\* Mutant: except TypeError only.
Caught_TypeErrorOnly(exc) == exc \in {"TypeError"}

\* except (ValueError, TypeError)
Caught(exc) == exc \in {"ValueError", "TypeError"}

\* return float(text) * multiplier, or the exception float() raises.
ParseStep(text, mult) ==
  IF ValidFloat(text) THEN [exc |-> "none", val |-> Times(Float(text), mult)]
  ELSE [exc |-> "ValueError", val |-> None]

\* clean_numeric_text as a function of its argument.
CleanNumericText(x) ==
  IF ~IsStr(x) THEN None
  ELSE LET st == SuffixStep(CleanText(x.s))
           p == ParseStep(st.text, st.mult)
       IN  IF p.exc = "none" THEN p.val
           ELSE IF Caught(p.exc) THEN None
           ELSE Raised

VARIABLES
  nIn,      \* clean_numeric_text: the argument
  nText,    \* the local text
  nMult,    \* the local multiplier, as a power of ten
  nExc,     \* the exception in flight
  nResult,  \* the value returned
  nPc       \* position: "type", "clean", "suffix", "parse", "except", "done", "raised"

nvars == <<nIn, nText, nMult, nExc, nResult, nPc>>

\* The characters texts are enumerated over.
Alphabet == {"$", ",", "%", " ", "T", "B", "M", "b", "1", ".", "-"}

RECURSIVE Texts(_)
Texts(n) ==
  IF n = 0 THEN {<<>>}
  ELSE LET shorter == Texts(n - 1) IN
       shorter \cup {Append(s, c) : s \in {t \in shorter : Len(t) = n - 1}, c \in Alphabet}

\* Longer texts of the kind the page shows.
Samples ==
  { <<"$", "1", ",", "2", "3", "4", ".", "5", "6">>,
    <<"$", "1", ".", "2", "T">>,
    <<"4", "5", ".", "3", "%">>,
    <<"-", "0", ".", "5", "%">>,
    <<"$", "2", ".", "5", "B", "T">>,
    <<"n", "a", "n">>,
    <<"-", "i", "n", "f">> }

NormInputs ==
  {Arg("str", s) : s \in Texts(MaxLen) \cup Samples}
    \cup {Arg("none", <<>>), Arg("float", <<>>)}

NIdle ==
  /\ nIn = Arg("none", <<>>)
  /\ nText = <<>>
  /\ nMult = 0
  /\ nExc = "none"
  /\ nResult = None
  /\ nPc = "idle"

\* ------------------------------------------------------------ the page
\* TOP_N is 20 in the source (line 27); the model runs it with a small table.
TOP_N == 3
\* Rows the page may hold beyond the first TOP_N.
MaxExtra == 1

\* program constants
MinCols == 9
HeadCount == 5

T(s) == Arg("str", s)

\* A raw table row as Selenium shows it: whether looking up its td cells
\* raises (a stale element), the number of cells, whether the
\* p.coin-item-symbol element exists, and the texts of columns 2, 3, 5, 7.
Row(stale, cells, symbol, name, price, change, mcap) ==
  [stale |-> stale, cells |-> cells, symbol |-> symbol, name |-> name,
   price |-> price, change |-> change, mcap |-> mcap]

AdRow == Row(FALSE, 4, FALSE, "", T(<<>>), T(<<>>), T(<<>>))
StaleRow == Row(TRUE, 0, FALSE, "", T(<<>>), T(<<>>), T(<<>>))
NoSymbolRow == Row(FALSE, 11, FALSE, "", T(<<"$", "1">>), T(<<"1", "%">>), T(<<"$", "1", "M">>))
BtcRow == Row(FALSE, 11, TRUE, "BTC", T(<<"$", "2">>), T(<<"1", "%">>), T(<<"$", "2", "M">>))
XrpRow == Row(FALSE, 11, TRUE, "XRP", T(<<>>), T(<<"-">>), T(<<"-", "-">>))
AdaRow == Row(FALSE, 11, TRUE, "ADA", T(<<"$", "1">>), T(<<"-">>), T(<<"$", "1", "M">>))
DogeRow == Row(FALSE, 11, TRUE, "DOGE", T(<<"$", "1">>), T(<<"-", "1", "%">>), T(<<"$", "0">>))

RowKinds == {AdRow, StaleRow, NoSymbolRow, BtcRow, XrpRow, AdaRow, DogeRow}

Min(a, b) == IF a < b THEN a ELSE b

\* ------------------------------------------------- get_top_cryptos: rows
\* Mutant: the slice is missing.
RowsSlice_NoSlice(total) == total

\* [:TOP_N] of a list of `total` rows: how many rows the loop visits.
RowsSlice(total) == Min(total, TOP_N)

\* The dict appended for a row.
Extract(r) ==
  [Name |-> r.name,
   PriceUSD |-> CleanNumericText(r.price),
   Change24h_Percent |-> CleanNumericText(r.change),
   MarketCapUSD |-> CleanNumericText(r.mcap)]

AllAbsent(rec) ==
  rec.PriceUSD = None /\ rec.Change24h_Percent = None /\ rec.MarketCapUSD = None

\* Mutant: no inner try, so a failing extraction aborts the batch.
RowStep_NoInnerTry(r) ==
  IF r.stale THEN [kind |-> "abort", rec |-> Extract(AdRow)]
  ELSE IF r.cells < MinCols THEN [kind |-> "skip", rec |-> Extract(AdRow)]
  ELSE IF ~r.symbol THEN [kind |-> "abort", rec |-> Extract(AdRow)]
  ELSE [kind |-> "append", rec |-> Extract(r)]

\* Mutant: a record with no numeric field is dropped by the loop.
RowStep_DropAllAbsent(r) ==
  IF r.stale THEN [kind |-> "abort", rec |-> Extract(AdRow)]
  ELSE IF r.cells < MinCols THEN [kind |-> "skip", rec |-> Extract(AdRow)]
  ELSE IF ~r.symbol THEN [kind |-> "skip", rec |-> Extract(AdRow)]
  ELSE IF AllAbsent(Extract(r)) THEN [kind |-> "skip", rec |-> Extract(AdRow)]
  ELSE [kind |-> "append", rec |-> Extract(r)]

\* One iteration of `for row in rows`: "abort" when the td lookup (outside
\* the inner try) raises, "skip" on a short row or when the extraction inside
\* the inner try raises, "append" otherwise.
RowStep(r) ==
  IF r.stale THEN [kind |-> "abort", rec |-> Extract(AdRow)]
  ELSE IF r.cells < MinCols THEN [kind |-> "skip", rec |-> Extract(AdRow)]
  ELSE IF ~r.symbol THEN [kind |-> "skip", rec |-> Extract(AdRow)]
  ELSE [kind |-> "append", rec |-> Extract(r)]

\* Mutant: the quit sits at the end of the try body, not in a finally.
FinallyQuits_OnlyOnReturn(drv, pend) == drv = "open" /\ pend = "none"

\* finally: if driver: driver.quit()
FinallyQuits(drv, pend) == drv = "open"

\* ------------------------------------------------------------- analysis
Present(v) == v.kind \in {"num", "inf"}

\* Mutant: dropna(subset=['PriceUSD', 'MarketCapUSD'])
DropNa_NoChange(df) ==
  SelectSeq(df, LAMBDA rec : Present(rec.PriceUSD) /\ Present(rec.MarketCapUSD))

\* dropna(subset=['Change24h_Percent', 'PriceUSD', 'MarketCapUSD'])
DropNa(df) ==
  SelectSeq(df, LAMBDA rec : Present(rec.Change24h_Percent) /\ Present(rec.PriceUSD)
                             /\ Present(rec.MarketCapUSD))

RECURSIVE Pow10(_)
Pow10(k) == IF k = 0 THEN 1 ELSE 10 * Pow10(k - 1)

\* The value of a whole-number float.
Val(v) == v.m * Pow10(v.e)

\* Results of float arithmetic: n / d, nan, or an infinity of sign n.
Unset == [kind |-> "unset", n |-> 0, d |-> 1]
QNaN == [kind |-> "nan", n |-> 0, d |-> 1]
Quot(n, d) == [kind |-> "num", n |-> n, d |-> d]

\* a / b in float64 arithmetic: no exception on a zero divisor.
Div(a, b) ==
  IF b = 0 THEN (IF a = 0 THEN QNaN ELSE [kind |-> "inf", n |-> (IF a > 0 THEN 1 ELSE 0 - 1), d |-> 1])
  ELSE IF b > 0 THEN Quot(a, b) ELSE Quot(0 - a, 0 - b)

\* q > 0 (False for nan)
Gt0(q) == q.kind \in {"num", "inf"} /\ q.n > 0

Ch(rec) == Val(rec.Change24h_Percent)
Mc(rec) == Val(rec.MarketCapUSD)
Pr(rec) == Val(rec.PriceUSD)

\* The columns of a frame without missing values, as sequences of numbers.
ColCh(df) == [k \in 1..Len(df) |-> Ch(df[k])]
ColMc(df) == [k \in 1..Len(df) |-> Mc(df[k])]
ColPr(df) == [k \in 1..Len(df) |-> Pr(df[k])]
ColChMc(df) == [k \in 1..Len(df) |-> Ch(df[k]) * Mc(df[k])]

\* Series.sum(): 0 for an empty column
Sum(col) ==
  LET S[k \in 0..Len(col)] == IF k = 0 THEN 0 ELSE S[k - 1] + col[k]
  IN  S[Len(col)]

\* df['Change24h_Percent'].mean(): nan for an empty column
Mean(df) == Div(Sum(ColCh(df)), Len(df))

\* (df['Change24h_Percent'] * df['MarketCapUSD']).sum() / df['MarketCapUSD'].sum()
WeightedAvg(df) == Div(Sum(ColChMc(df)), Sum(ColMc(df)))

Sentiment(q) == IF Gt0(q) THEN "Bullish" ELSE "Bearish"

\* idxmax / idxmin of a column: the first row holding the extreme; 0 stands
\* for the ValueError an empty column raises.
IdxMax(col) ==
  IF col = <<>> THEN 0
  ELSE CHOOSE k \in 1..Len(col) :
         /\ \A j \in 1..Len(col) : col[j] <= col[k]
         /\ \A j \in 1..(k - 1) : col[j] < col[k]

IdxMin(col) ==
  IF col = <<>> THEN 0
  ELSE CHOOSE k \in 1..Len(col) :
         /\ \A j \in 1..Len(col) : col[j] >= col[k]
         /\ \A j \in 1..(k - 1) : col[j] > col[k]

\* Series.max(), Series.min() of a column that is not empty
ColMax(col) == col[IdxMax(col)]
ColMin(col) == col[IdxMin(col)]

\* sort_values(by='Change24h_Percent', ascending=asc).head(5); rows of equal
\* change are kept in one fixed order (pandas leaves that order to the sort).
ChBefore(a, b, asc) == IF asc THEN Ch(a) < Ch(b) ELSE Ch(a) > Ch(b)

RECURSIVE InsertBy(_, _, _)
InsertBy(rec, sorted, asc) ==
  IF sorted = <<>> THEN <<rec>>
  ELSE IF ChBefore(rec, Head(sorted), asc) THEN <<rec>> \o sorted
  ELSE <<Head(sorted)>> \o InsertBy(rec, Tail(sorted), asc)

RECURSIVE SortBy(_, _)
SortBy(df, asc) ==
  IF df = <<>> THEN <<>>
  ELSE InsertBy(df[Len(df)], SortBy(SubSeq(df, 1, Len(df) - 1), asc), asc)

HeadN(df, n) == SubSeq(df, 1, Min(n, Len(df)))

TopGainers(df) == HeadN(SortBy(df, FALSE), HeadCount)
TopLosers(df) == HeadN(SortBy(df, TRUE), HeadCount)

\* The scoring model of display_recommendation_assistant: the position of the
\* row df['score'].idxmax() names, 0 when every score is nan (a zero range in
\* either metric), where the lookup df.loc[...] raises.
ScorePick(df) ==
  IF df = <<>> THEN 0
  ELSE LET mcmin == ColMin(ColMc(df))
           chmin == ColMin(ColCh(df))
           mcr == ColMax(ColMc(df)) - mcmin
           chr == ColMax(ColCh(df)) - chmin
           \* 2 * mcr * chr * score, the ranges being positive
           score == [k \in 1..Len(df) |-> (Mc(df[k]) - mcmin) * chr + (Ch(df[k]) - chmin) * mcr]
       IN  IF mcr = 0 \/ chr = 0 THEN 0 ELSE IdxMax(score)

\* Mutant: the try sits inside the while loop.
AfterMainExcept_InLoop == "sleep"

\* main's handlers sit outside the while loop: after either, main returns.
AfterMainExcept == "done"

\* if data.empty or len(data) < TOP_N: the warning is printed and control
\* falls through to the sleep at the end of the loop body.
Incomplete(df) == Len(df) = 0 \/ Len(df) < TOP_N
\* Mutant: incomplete data ends the loop.
AfterIncomplete_Stop == "done"
AfterIncomplete == "sleep"

VARIABLES
  pc,           \* position in main / get_top_cryptos
  pending,      \* Exception in flight: "none", "Exception"
  exitReason,   \* why main returned: "none", "interrupt", "error"
  errSite,      \* where the Exception that reached main was raised
  driver,       \* get_top_cryptos's local driver: "none", "open", "quit"
  openDrivers,  \* browsers started and not yet quit
  quits,        \* driver.quit() calls of the current get_top_cryptos call
  rowsTotal,    \* rows the page held at the lookup of line 84
  nrows,        \* len(rows) after the slice
  i,            \* the loop's next row, from 1
  seen,         \* the raw rows the loop has read, in order
  crypto_data,  \* the list of dicts
  data,         \* the DataFrame get_top_cryptos returned
  warned,       \* the incomplete-data warning was printed this cycle
  analysis_data,
  top_gainers,
  top_losers,
  avg_change,
  sentiment,
  weighted_avg_change,
  weighted_sentiment,
  recommendation, \* position in analysis_data of the pick, 0 before it
  chart,        \* generate_historical_chart: "none", "saved", "failed"
  persisted,    \* save_to_csv appended this cycle's data
  file_exists,  \* os.path.exists(filename)
  wrote_header  \* this cycle's append wrote the header line

gvars == <<driver, openDrivers, quits, rowsTotal, nrows, i, seen, crypto_data, data>>
avars == <<analysis_data, top_gainers, top_losers, avg_change, sentiment,
           weighted_avg_change, weighted_sentiment, recommendation, chart>>
fvars == <<persisted, file_exists, wrote_header>>
mvars == <<pc, pending, exitReason, errSite, warned>>
pvars == <<mvars, gvars, avars, fvars>>
vars == <<nvars, pvars>>

PInit ==
  /\ pc = "poll"
  /\ pending = "none"
  /\ exitReason = "none"
  /\ errSite = "none"
  /\ driver = "none"
  /\ openDrivers = 0
  /\ quits = 0
  /\ rowsTotal = 0
  /\ nrows = 0
  /\ i = 1
  /\ seen = <<>>
  /\ crypto_data = <<>>
  /\ data = <<>>
  /\ warned = FALSE
  /\ analysis_data = <<>>
  /\ top_gainers = <<>>
  /\ top_losers = <<>>
  /\ avg_change = Unset
  /\ sentiment = "none"
  /\ weighted_avg_change = Unset
  /\ weighted_sentiment = "none"
  /\ recommendation = 0
  /\ chart = "none"
  /\ persisted = FALSE
  /\ file_exists \in BOOLEAN
  /\ wrote_header = FALSE

Init == NIdle /\ PInit

\* ------------------------------------------------------ get_top_cryptos
\* Raising inside the outer try: control goes to `except Exception`.
RaiseInGet ==
  /\ pending' = "Exception"
  /\ pc' = "except"

\* main, line 294: data = get_top_cryptos(headless=True); driver = None
Poll ==
  /\ pc = "poll"
  /\ pc' = "start_driver"
  /\ driver' = "none"
  /\ quits' = 0
  /\ rowsTotal' = 0
  /\ nrows' = 0
  /\ i' = 1
  /\ seen' = <<>>
  /\ crypto_data' = <<>>
  /\ data' = <<>>
  /\ warned' = FALSE
  /\ analysis_data' = <<>>
  /\ top_gainers' = <<>>
  /\ top_losers' = <<>>
  /\ avg_change' = Unset
  /\ sentiment' = "none"
  /\ weighted_avg_change' = Unset
  /\ weighted_sentiment' = "none"
  /\ recommendation' = 0
  /\ chart' = "none"
  /\ persisted' = FALSE
  /\ wrote_header' = FALSE
  /\ UNCHANGED <<pending, exitReason, errSite, openDrivers, file_exists, nvars>>

\* line 72: driver = webdriver.Chrome(...)
StartDriver ==
  /\ pc = "start_driver"
  /\ \E ok \in BOOLEAN :
       IF ok
       THEN /\ driver' = "open"
            /\ openDrivers' = openDrivers + 1
            /\ pc' = "get"
            /\ UNCHANGED pending
       ELSE RaiseInGet /\ UNCHANGED <<driver, openDrivers>>
  /\ UNCHANGED <<exitReason, errSite, warned, quits, rowsTotal, nrows, i, seen,
                 crypto_data, data, avars, fvars, nvars>>

\* line 75: driver.get(URL)
PageGet ==
  /\ pc = "get"
  /\ \E ok \in BOOLEAN :
       IF ok THEN pc' = "wait" /\ UNCHANGED pending ELSE RaiseInGet
  /\ UNCHANGED <<exitReason, errSite, warned, gvars, avars, fvars, nvars>>

\* lines 77-81: both waits; a timeout raises
WaitTable ==
  /\ pc = "wait"
  /\ \E ok \in BOOLEAN :
       IF ok THEN pc' = "find_rows" /\ UNCHANGED pending ELSE RaiseInGet
  /\ UNCHANGED <<exitReason, errSite, warned, gvars, avars, fvars, nvars>>

\* line 84: rows = driver.find_elements(...)[:TOP_N]; the page is read again
\* here, so the count is the page's at this moment.
FindRows ==
  /\ pc = "find_rows"
  /\ \/ \E total \in 0..(TOP_N + MaxExtra) :
          /\ rowsTotal' = total
          /\ nrows' = RowsSlice(total)
          /\ pc' = "loop"
          /\ UNCHANGED pending
     \/ RaiseInGet /\ UNCHANGED <<rowsTotal, nrows>>
  /\ UNCHANGED <<exitReason, errSite, warned, driver, openDrivers, quits, i, seen,
                 crypto_data, data, avars, fvars, nvars>>

\* lines 88-110: one iteration, on the row as the page shows it now
LoopRow ==
  /\ pc = "loop"
  /\ i <= nrows
  /\ \E r \in RowKinds :
       LET step == RowStep(r) IN
       /\ seen' = Append(seen, r)
       /\ i' = i + 1
       /\ IF step.kind = "abort"
          THEN RaiseInGet /\ UNCHANGED crypto_data
          ELSE /\ crypto_data' = (IF step.kind = "append" THEN Append(crypto_data, step.rec)
                                  ELSE crypto_data)
               /\ UNCHANGED <<pc, pending>>
  /\ UNCHANGED <<exitReason, errSite, warned, driver, openDrivers, quits, rowsTotal,
                 nrows, data, avars, fvars, nvars>>

\* line 112: return pd.DataFrame(crypto_data)
ReturnData ==
  /\ pc = "loop"
  /\ i > nrows
  /\ data' = crypto_data
  /\ pc' = "finally"
  /\ UNCHANGED <<pending, exitReason, errSite, warned, driver, openDrivers, quits,
                 rowsTotal, nrows, i, seen, crypto_data, avars, fvars, nvars>>

\* lines 114-119: the screenshot (only with a driver) may itself raise, and
\* then that exception leaves the function; otherwise an empty DataFrame is
\* returned
ExceptScrape ==
  /\ pc = "except"
  /\ pc' = "finally"
  /\ \/ /\ pending' = "none"
        /\ data' = <<>>
        /\ UNCHANGED errSite
     \/ /\ driver = "open"
        /\ pending' = "Exception"
        /\ errSite' = "screenshot"
        /\ UNCHANGED data
  /\ UNCHANGED <<exitReason, warned, driver, openDrivers, quits, rowsTotal, nrows, i,
                 seen, crypto_data, avars, fvars, nvars>>

\* lines 120-124, then the return to main or the exception reaching it
FinallyScrape ==
  /\ pc = "finally"
  /\ IF FinallyQuits(driver, pending)
     THEN /\ driver' = "quit"
          /\ openDrivers' = openDrivers - 1
          /\ quits' = quits + 1
     ELSE UNCHANGED <<driver, openDrivers, quits>>
  /\ pc' = (IF pending = "none" THEN "check" ELSE "main_except")
  /\ UNCHANGED <<pending, exitReason, errSite, warned, rowsTotal, nrows, i, seen,
                 crypto_data, data, avars, fvars, nvars>>

\* ------------------------------------------------------------------ main
\* Raising in the loop body of main: control goes to main's handlers.
RaiseInMain(site) ==
  /\ pending' = "Exception"
  /\ errSite' = site
  /\ pc' = "main_except"

\* line 296 and the warning of line 297
MainCheck ==
  /\ pc = "check"
  /\ IF Incomplete(data)
     THEN warned' = TRUE /\ pc' = AfterIncomplete
     ELSE pc' = "filter" /\ UNCHANGED warned
  /\ UNCHANGED <<pending, exitReason, errSite, gvars, avars, fvars, nvars>>

\* lines 308-320: to_numeric, dropna, the gainers and losers tables
Filter ==
  /\ pc = "filter"
  /\ analysis_data' = DropNa(data)
  /\ top_gainers' = TopGainers(DropNa(data))
  /\ top_losers' = TopLosers(DropNa(data))
  /\ pc' = "advanced"
  /\ UNCHANGED <<pending, exitReason, errSite, warned, gvars, avg_change, sentiment,
                 weighted_avg_change, weighted_sentiment, recommendation, chart, fvars, nvars>>

\* display_advanced_analysis(analysis_data.copy()): the sentiment line is
\* printed before idxmax raises on an empty frame
Advanced ==
  /\ pc = "advanced"
  /\ avg_change' = Mean(analysis_data)
  /\ sentiment' = Sentiment(Mean(analysis_data))
  /\ IF IdxMax(ColPr(analysis_data)) = 0
     THEN RaiseInMain("advanced")
     ELSE pc' = "highly" /\ UNCHANGED <<pending, errSite>>
  /\ UNCHANGED <<exitReason, warned, gvars, analysis_data, top_gainers, top_losers,
                 weighted_avg_change, weighted_sentiment, recommendation, chart, fvars, nvars>>

\* display_highly_advanced_analysis(analysis_data)
Highly ==
  /\ pc = "highly"
  /\ weighted_avg_change' = WeightedAvg(analysis_data)
  /\ weighted_sentiment' = Sentiment(WeightedAvg(analysis_data))
  /\ pc' = "recommend"
  /\ UNCHANGED <<pending, exitReason, errSite, warned, gvars, analysis_data,
                 top_gainers, top_losers, avg_change, sentiment, recommendation, chart,
                 fvars, nvars>>

\* display_recommendation_assistant(analysis_data.copy()); the chart's own
\* failures are caught inside generate_historical_chart
Recommend ==
  /\ pc = "recommend"
  /\ IF ScorePick(analysis_data) = 0
     THEN RaiseInMain("recommend") /\ UNCHANGED <<recommendation, chart>>
     ELSE /\ recommendation' = ScorePick(analysis_data)
          /\ chart' \in {"saved", "failed"}
          /\ pc' = "save"
          /\ UNCHANGED <<pending, errSite>>
  /\ UNCHANGED <<exitReason, warned, gvars, analysis_data, top_gainers, top_losers,
                 avg_change, sentiment, weighted_avg_change, weighted_sentiment, fvars, nvars>>

\* save_to_csv(data, FILE_NAME): makedirs or to_csv may raise
Save ==
  /\ pc = "save"
  /\ \/ /\ wrote_header' = ~file_exists
        /\ file_exists' = TRUE
        /\ persisted' = TRUE
        /\ pc' = "sleep"
        /\ UNCHANGED <<pending, errSite>>
     \/ RaiseInMain("save") /\ UNCHANGED fvars
  /\ UNCHANGED <<exitReason, warned, gvars, avars, nvars>>

\* lines 329-330, then the next turn of while True
Sleep ==
  /\ pc = "sleep"
  /\ pc' = "poll"
  /\ UNCHANGED <<pending, exitReason, errSite, warned, gvars, avars, fvars, nvars>>

\* lines 334-335
MainExcept ==
  /\ pc = "main_except"
  /\ exitReason' = "error"
  /\ pending' = "none"
  /\ pc' = AfterMainExcept
  /\ UNCHANGED <<errSite, warned, gvars, avars, fvars, nvars>>

InGetTry == pc \in {"start_driver", "get", "wait", "find_rows", "loop", "except"}
InMainBody == pc \in {"check", "filter", "advanced", "highly", "recommend", "save", "sleep"}

\* Ctrl+C: a KeyboardInterrupt is no Exception, so inside get_top_cryptos only
\* the finally block (lines 120-124) runs before main's handler of lines
\* 332-333 does; the unwinding is one step.
Interrupt ==
  /\ InGetTry \/ InMainBody
  /\ IF InGetTry /\ FinallyQuits(driver, "KeyboardInterrupt")
     THEN /\ driver' = "quit"
          /\ openDrivers' = openDrivers - 1
          /\ quits' = quits + 1
     ELSE UNCHANGED <<driver, openDrivers, quits>>
  /\ exitReason' = "interrupt"
  /\ pc' = AfterMainExcept
  /\ UNCHANGED <<pending, errSite, warned, rowsTotal, nrows, i, seen, crypto_data,
                 data, avars, fvars, nvars>>

Program ==
  \/ Poll
  \/ StartDriver
  \/ PageGet
  \/ WaitTable
  \/ FindRows
  \/ LoopRow
  \/ ReturnData
  \/ ExceptScrape
  \/ FinallyScrape
  \/ MainCheck
  \/ Filter
  \/ Advanced
  \/ Highly
  \/ Recommend
  \/ Save
  \/ Sleep
  \/ MainExcept

Next == Program \/ Interrupt

Spec == Init /\ [][Next]_vars

\* The interpreter keeps running the loop body: the test of line 296, the
\* sleep and the next turn of the loop each complete unless Ctrl+C comes first.
FairSpec == Spec /\ WF_vars(MainCheck) /\ WF_vars(Sleep) /\ WF_vars(Poll)

\* ------------------------------------ clean_numeric_text, step by step
NInit ==
  /\ nIn \in NormInputs
  /\ nText = nIn.s
  /\ nMult = 0
  /\ nExc = "none"
  /\ nResult = None
  /\ nPc = "type"

\* if not isinstance(text, str): return None
NType ==
  /\ nPc = "type"
  /\ IF IsStr(nIn)
     THEN nPc' = "clean" /\ UNCHANGED nResult
     ELSE nPc' = "done" /\ nResult' = None
  /\ UNCHANGED <<nIn, nText, nMult, nExc, pvars>>

NClean ==
  /\ nPc = "clean"
  /\ nText' = CleanText(nText)
  /\ nPc' = "suffix"
  /\ UNCHANGED <<nIn, nMult, nExc, nResult, pvars>>

NSuffix ==
  /\ nPc = "suffix"
  /\ nMult' = SuffixStep(nText).mult
  /\ nText' = SuffixStep(nText).text
  /\ nPc' = "parse"
  /\ UNCHANGED <<nIn, nExc, nResult, pvars>>

NParse ==
  /\ nPc = "parse"
  /\ LET p == ParseStep(nText, nMult) IN
     IF p.exc = "none"
     THEN nResult' = p.val /\ nPc' = "done" /\ UNCHANGED nExc
     ELSE nExc' = p.exc /\ nPc' = "except" /\ UNCHANGED nResult
  /\ UNCHANGED <<nIn, nText, nMult, pvars>>

NExcept ==
  /\ nPc = "except"
  /\ IF Caught(nExc)
     THEN nResult' = None /\ nPc' = "done" /\ nExc' = "none"
     ELSE nPc' = "raised" /\ UNCHANGED <<nResult, nExc>>
  /\ UNCHANGED <<nIn, nText, nMult, pvars>>

NormInit == NInit /\ PInit

NormNext == NType \/ NClean \/ NSuffix \/ NParse \/ NExcept

NormSpec == NormInit /\ [][NormNext]_vars

\* =============================================================== claims
Last(q) == q[Len(q)]

\* A row the loop keeps, and a row the loop skips on its own.
Usable(r) == ~r.stale /\ r.cells >= MinCols /\ r.symbol
SkippedAlone(r) == ~r.stale /\ (r.cells < MinCols \/ ~r.symbol)

ExtractAll(rows) == [k \in 1..Len(rows) |-> Extract(rows[k])]

InCall == pc \in {"start_driver", "get", "wait", "find_rows", "loop", "except", "finally"}
Analysing == pc \in {"advanced", "highly", "recommend", "save"}

\* C1: a row with fewer than 9 cells, or whose extraction raises, is skipped
\* on its own: the loop goes on to the next row, the records collected are
\* exactly those of the other rows read, and an exception leaves the loop
\* only when the cell lookup of the row just read raised.
C1_RowScopedSkip ==
  /\ crypto_data = ExtractAll(SelectSeq(seen, Usable))
  /\ pc = "loop" => Len(seen) = i - 1
  /\ (pc \in {"except", "finally"} /\ pending = "Exception" /\ seen # <<>>) => Last(seen).stale

C1_Witness ==
  /\ pc = "check"
  /\ Len(seen) = TOP_N
  /\ \E j, k \in 1..Len(seen) : seen[j].cells < MinCols /\ seen[k] = NoSymbolRow
  /\ SkippedAlone(seen[1])
  /\ Usable(Last(seen))
  /\ Len(data) = Len(seen) - 2

\* C2: clean_numeric_text never raises; it returns None exactly when the
\* argument is not text or the text left after cleaning and suffix removal
\* is no valid float, and a float otherwise.
C2_NeverRaises ==
  /\ nPc # "raised"
  /\ nPc = "done" =>
       /\ nExc = "none"
       /\ (nResult = None) <=> (~IsStr(nIn) \/ ~ValidFloat(nText))
       /\ nResult # None => nResult.kind \in {"num", "nan", "inf"}
       /\ nResult = CleanNumericText(nIn)

C2_Witness ==
  /\ nPc = "done"
  /\ IsStr(nIn)
  /\ Contains(nIn.s, "1")
  /\ ~ValidFloat(nText)
  /\ nResult = None

\* The ordered table of magnitude letters.
Magnitudes ==
  << [letter |-> "T", exp |-> TExp], [letter |-> "B", exp |-> BExp],
     [letter |-> "M", exp |-> MExp] >>

\* The first entry of the table whose letter occurs in c, 0 when none does.
FirstMagnitude(c) ==
  LET hits == {k \in 1..Len(Magnitudes) : Contains(c, Magnitudes[k].letter)}
  IN  IF hits = {} THEN 0 ELSE CHOOSE k \in hits : \A j \in hits : k <= j

\* C3 (as stated): a magnitude letter is recognized as a suffix, once: when a
\* number comes back with a multiplier, the letter ended the cleaned text and
\* occurred in it once.
C3_SuffixOnce ==
  (nPc = "done" /\ IsStr(nIn) /\ nMult # 0 /\ nResult.kind = "num") =>
    LET c == CleanText(nIn.s)
        l == Magnitudes[FirstMagnitude(c)].letter
    IN  /\ Last(c) = l
        /\ Cardinality({k \in 1..Len(c) : c[k] = l}) = 1

\* C3 (amended): at most one magnitude letter is recognized, case-sensitively,
\* T before B before M, wherever it occurs in the cleaned text; every
\* occurrence of it is removed and the result is the remaining text parsed
\* as a number times that one multiplier; with no magnitude letter the
\* cleaned text is parsed with multiplier 1.
C3_LetterAnywhere ==
  (nPc = "done" /\ IsStr(nIn)) =>
    LET c == CleanText(nIn.s)
        f == FirstMagnitude(c)
    IN  /\ nMult = (IF f = 0 THEN 0 ELSE Magnitudes[f].exp)
        /\ nText = (IF f = 0 THEN c ELSE Replace(c, Magnitudes[f].letter))
        /\ nResult = (IF ValidFloat(nText) THEN Times(Float(nText), nMult) ELSE None)
        /\ (f = 0 /\ Contains(c, "b")) => nResult = None

C3_Witness ==
  /\ nPc = "done"
  /\ nIn = Arg("str", <<"T", "1", "T">>)
  /\ nResult = Num(1, TExp)

\* C4 (as stated): no record whose price, change and market cap are all
\* absent is in the DataFrame get_top_cryptos returned (here: from a page
\* that held TOP_N rows or more).
C4_AllAbsentDiscarded ==
  rowsTotal >= TOP_N => \A k \in 1..Len(data) : ~AllAbsent(data[k])

\* C4 (amended): a record whose price, change and market cap are all absent
\* is not discarded by extraction: it is appended like any other parsed row
\* and is in every non-empty DataFrame get_top_cryptos returns; only main's
\* dropna keeps it out of the analysis input.
C4_AllAbsentKept ==
  /\ data # <<>> =>
       Cardinality({k \in 1..Len(data) : AllAbsent(data[k])})
         = Cardinality({k \in 1..Len(seen) : Usable(seen[k]) /\ AllAbsent(Extract(seen[k]))})
  /\ Analysing => \A k \in 1..Len(analysis_data) : ~AllAbsent(analysis_data[k])

C4_Witness ==
  /\ pc = "advanced"
  /\ seen[1] = XrpRow
  /\ AllAbsent(data[1])
  /\ Len(analysis_data) = Len(data) - 1

RECURSIVE IsSubseq(_, _)
IsSubseq(a, b) ==
  IF a = <<>> THEN TRUE
  ELSE IF b = <<>> THEN FALSE
  ELSE IF Head(a) = Head(b) THEN IsSubseq(Tail(a), Tail(b))
  ELSE IsSubseq(a, Tail(b))

\* C5: whatever the number of rows of the page, the loop reads only the first
\* TOP_N of them, the DataFrame holds at most TOP_N records, and its records
\* are in the order of their source rows, none added.
C5_TopNInOrder ==
  /\ nrows <= TOP_N
  /\ Len(seen) <= TOP_N
  /\ Len(seen) <= rowsTotal
  /\ Len(data) <= TOP_N
  /\ IsSubseq(data, ExtractAll(seen))
  /\ Len(data) <= Cardinality({k \in 1..Len(seen) : Usable(seen[k])})

C5_Witness ==
  /\ pc = "check"
  /\ rowsTotal > TOP_N
  /\ Len(data) = TOP_N
  /\ data[1] # data[TOP_N]

Qualifies(rec) ==
  /\ rec.PriceUSD.kind \notin {"none", "nan"}
  /\ rec.Change24h_Percent.kind \notin {"none", "nan"}
  /\ rec.MarketCapUSD.kind \notin {"none", "nan"}

Members(q) == {q[k] : k \in 1..Len(q)}

\* C6: every record handed to the analysis and scoring functions and to the
\* gainers and losers tables has price, change and market cap present; the
\* aggregates are those of the qualifying records of the DataFrame alone.
C6_OnlyQualifying ==
  /\ \A k \in 1..Len(analysis_data) : Qualifies(analysis_data[k])
  /\ Members(top_gainers) \subseteq Members(analysis_data)
  /\ Members(top_losers) \subseteq Members(analysis_data)
  /\ Analysing => analysis_data = SelectSeq(data, Qualifies)
  /\ avg_change # Unset => avg_change = Mean(SelectSeq(data, Qualifies))
  /\ weighted_avg_change # Unset => weighted_avg_change = WeightedAvg(SelectSeq(data, Qualifies))

C6_Witness ==
  /\ pc = "recommend"
  /\ \E k \in 1..Len(data) : ~Qualifies(data[k]) /\ ~AllAbsent(data[k])
  /\ Len(analysis_data) = Len(data) - 1
  /\ avg_change.kind = "num"

\* C7: a degenerate analysis input (no qualifying record, zero total market
\* cap, a metric whose maximum equals its minimum) never yields a nan or
\* infinite aggregate: no sentiment is ever derived from one.
C7_NoSilentNaN ==
  /\ avg_change.kind \notin {"nan", "inf"}
  /\ weighted_avg_change.kind \notin {"nan", "inf"}

\* C8: a cycle whose DataFrame is incomplete (empty, or fewer than TOP_N
\* records) reports it and goes on: the warning is printed, an empty
\* DataFrame is not analysed or persisted in that cycle, main does not
\* return, and unless the user interrupts the next poll cycle starts.
C8_DegradedContinues ==
  /\ []((pc = "sleep" /\ Incomplete(data)) => warned)
  /\ []((warned /\ data = <<>>) => (avg_change = Unset /\ recommendation = 0 /\ ~persisted))
  /\ [](warned => (Incomplete(data) /\ exitReason # "error"))
  /\ (pc = "check" /\ Incomplete(data)) ~> (pc = "start_driver" \/ exitReason = "interrupt")

C8_Witness ==
  /\ pc = "poll"
  /\ warned
  /\ data # <<>>
  /\ exitReason = "none"
  /\ ENABLED Poll

\* C9: when get_top_cryptos has returned or raised, a driver it started has
\* been quit exactly once and no browser is open; none is open when the next
\* call starts.
C9_DriverQuitOnce ==
  /\ quits <= 1
  /\ openDrivers \in {0, 1}
  /\ ~InCall => openDrivers = 0
  /\ (~InCall /\ driver # "none") => (driver = "quit" /\ quits = 1)
  /\ pc = "start_driver" => openDrivers = 0

C9_Witness ==
  /\ pc = "main_except"
  /\ pending = "Exception"
  /\ errSite = "screenshot"
  /\ seen # <<>>
  /\ quits = 1
  /\ openDrivers = 0

\* C10: an exception raised by analysis, scoring or persistence ends the
\* polling loop: main returns, nothing is persisted in that cycle when the
\* exception came before save_to_csv, and no later cycle starts.
C10_ErrorEndsLoop ==
  /\ [](exitReason = "error" => pc = "done")
  /\ []((exitReason = "error" /\ errSite \in {"advanced", "recommend"}) => ~persisted)
  /\ [][exitReason = "error" => (pc' = "done" /\ persisted' = persisted)]_vars

C10_Witness ==
  /\ pc = "done"
  /\ exitReason = "error"
  /\ errSite = "recommend"
  /\ ~persisted

=============================================================================
